---- MODULE Spec2Model ----
(***************************************************************************)
(* Margin engine of drift-ffi-sys (src/src/margin.rs): the one-shot        *)
(* calculate_simplified_margin_requirement and the stateful                *)
(* IncrementalMarginCalculation cache, with the market lookups of          *)
(* src/src/types.rs.                                                       *)
(*                                                                         *)
(* A call that panics (an unwrap on a missing market) ends the run: the    *)
(* state it leaves is kept so that it can be inspected, and no further     *)
(* operation is taken.                                                     *)
(***************************************************************************)
EXTENDS Integers, Sequences, FiniteSets, TLC

VARIABLES
    user,       \* the account: spot_positions, perp_positions, flags
    ms,         \* the MarketState snapshot passed to the last call
    cache,      \* the IncrementalMarginCalculation
    call,       \* the last operation and its arguments
    outcome,    \* "ok", or "panic" when the last operation panicked
    steps,      \* number of operations performed on the cache
    overflow_checks, \* build profile: arithmetic overflow panics or wraps
    calc,       \* a SimplifiedMarginCalculation whose getters are evaluated
    getter      \* the getters' results on calc

vars == <<user, ms, cache, call, outcome, steps, overflow_checks, calc,
          getter>>

----------------------------------------------------------------------------
(* Bounds of the model *)

MaxSpotMarket == 1      \* spot market indexes 0..MaxSpotMarket
MaxPerpMarket == 0      \* perp market indexes 0..MaxPerpMarket
MaxSteps == 2           \* operations performed on one cache
IntBits == 20           \* width the 128-bit integers are scaled down to

(* Program constants *)

QUOTE_SPOT_MARKET_INDEX == 0
MARGIN_PRECISION == 10000
SPOT_WEIGHT_PRECISION == 10000
OPEN_ORDER_MARGIN_REQUIREMENT == 10000
NumSlots == 8

SpotIndexes == 0..MaxSpotMarket
PerpIndexes == 0..MaxPerpMarket
\* the timestamps of the calls: zero, which exists() does not count, and a
\* later one
Timestamps == {0, 1}
MarginTypes == {"Initial", "Maintenance"}
MarginBuffers == {0, 1000}

----------------------------------------------------------------------------
(* Integer helpers: Rust's `/` truncates toward zero, safe_div_floor       *)
(* rounds toward minus infinity.                                           *)

Abs(x) == IF x < 0 THEN -x ELSE x

Max(a, b) == IF a >= b THEN a ELSE b

Min(a, b) == IF a <= b THEN a ELSE b

TruncDiv(a, b) == IF a >= 0 THEN a \div b ELSE -((-a) \div b)

FloorDiv(a, b) == a \div b

----------------------------------------------------------------------------
(* Market definitions and prices.  A snapshot says which indexes have an   *)
(* entry; the entry of an index is fixed.                                  *)

SpotMarketDef(m) ==
    IF m = QUOTE_SPOT_MARKET_INDEX
    THEN [market_index |-> m, precision_decrease |-> 10, price |-> 10,
          initial_asset_weight |-> 10000, maintenance_asset_weight |-> 10000,
          initial_liability_weight |-> 10000,
          maintenance_liability_weight |-> 10000]
    ELSE [market_index |-> m, precision_decrease |-> 10, price |-> 25 + m,
          initial_asset_weight |-> 8000, maintenance_asset_weight |-> 9000,
          initial_liability_weight |-> 12000,
          maintenance_liability_weight |-> 11000]

PerpMarketDef(m) ==
    [market_index |-> m, quote_spot_market_index |-> QUOTE_SPOT_MARKET_INDEX,
     price |-> 100 + m,
     margin_ratio_initial |-> 2000, margin_ratio_maintenance |-> 1000,
     high_leverage_margin_ratio_initial |-> 1000,
     high_leverage_margin_ratio_maintenance |-> 500,
     unrealized_pnl_initial_asset_weight |-> 8000,
     unrealized_pnl_maintenance_asset_weight |-> 10000]

\* the snapshots a caller passes: no market, the quote spot market only,
\* every market
Snapshots ==
    { [spot |-> {}, perp |-> {}],
      [spot |-> {QUOTE_SPOT_MARKET_INDEX}, perp |-> {}],
      [spot |-> SpotIndexes, perp |-> PerpIndexes] }

\* MarketState::get_spot_market: unwrap of the map entry
HasSpotMarket(mst, m) == m \in mst.spot

\* MarketState::get_perp_market: unwrap of the map entry
HasPerpMarket(mst, m) == m \in mst.perp

----------------------------------------------------------------------------
(* Positions *)

DefaultSpotPosition ==
    [market_index |-> 0, balance_type |-> "Deposit", scaled_balance |-> 0,
     open_bids |-> 0, open_asks |-> 0, open_orders |-> 0]

DefaultPerpPosition ==
    [market_index |-> 0, base_asset_amount |-> 0, quote_asset_amount |-> 0,
     open_bids |-> 0, open_asks |-> 0, open_orders |-> 0,
     max_margin_ratio |-> 0]

\* the non-empty spot positions a caller may hold in market m
SpotChoices(m) ==
    { [market_index |-> m, balance_type |-> "Deposit", scaled_balance |-> 30,
       open_bids |-> 0, open_asks |-> 0, open_orders |-> 0],
      [market_index |-> m, balance_type |-> "Borrow", scaled_balance |-> 7,
       open_bids |-> 0, open_asks |-> 0, open_orders |-> 0],
      [market_index |-> m, balance_type |-> "Deposit", scaled_balance |-> 5,
       open_bids |-> 3, open_asks |-> -9, open_orders |-> 1],
      [market_index |-> m, balance_type |-> "Borrow", scaled_balance |-> 13,
       open_bids |-> 0, open_asks |-> 0, open_orders |-> 0] }

\* the non-empty perp positions a caller may hold in market m
PerpChoices(m) ==
    { [market_index |-> m, base_asset_amount |-> 1,
       quote_asset_amount |-> -90, open_bids |-> 0, open_asks |-> 0,
       open_orders |-> 0, max_margin_ratio |-> 0],
      [market_index |-> m, base_asset_amount |-> 1,
       quote_asset_amount |-> -110, open_bids |-> 0, open_asks |-> 0,
       open_orders |-> 0, max_margin_ratio |-> 0],
      [market_index |-> m, base_asset_amount |-> -2,
       quote_asset_amount |-> 190, open_bids |-> 1, open_asks |-> 0,
       open_orders |-> 1, max_margin_ratio |-> 3000] }

\* an emptied position keeps the market index the caller passes
EmptySpot(m) == [DefaultSpotPosition EXCEPT !.market_index = m]

EmptyPerp(m) == [DefaultPerpPosition EXCEPT !.market_index = m]

\* the position of market m an account holds when its cache is first built
HeldSpot(m) ==
    [market_index |-> m,
     balance_type |-> IF m = QUOTE_SPOT_MARKET_INDEX THEN "Deposit"
                      ELSE "Borrow",
     scaled_balance |-> IF m = QUOTE_SPOT_MARKET_INDEX THEN 30 ELSE 7,
     open_bids |-> 0, open_asks |-> 0, open_orders |-> 0]

HeldPerp(m) ==
    [market_index |-> m, base_asset_amount |-> 1,
     quote_asset_amount |-> -110, open_bids |-> 0, open_asks |-> 0,
     open_orders |-> 0, max_margin_ratio |-> 0]

\* SpotPosition::is_available
SpotIsAvailable(p) == p.scaled_balance = 0 /\ p.open_orders = 0

\* SpotPosition::is_borrow
SpotIsBorrow(p) == p.scaled_balance > 0 /\ p.balance_type = "Borrow"

\* PerpPosition::is_available
PerpIsAvailable(p) ==
    /\ p.base_asset_amount = 0
    /\ p.quote_asset_amount = 0
    /\ p.open_orders = 0

\* User::is_high_leverage_mode
IsHighLeverageMode(u, margin_type) ==
    \/ u.margin_mode = "HighLeverage"
    \/ (margin_type = "Maintenance"
        /\ u.margin_mode = "HighLeverageMaintenance")

----------------------------------------------------------------------------
(* The drift_program routines the engine calls, with imf_factor = 0 and    *)
(* cumulative interest 1.0 (token amount = scaled balance).                *)

\* SpotPosition::get_signed_token_amount
GetSignedTokenAmount(p) ==
    IF p.balance_type = "Deposit" THEN p.scaled_balance ELSE -p.scaled_balance

\* spot_balance::get_token_value / get_strict_token_value (twap absent)
GetTokenValue(token_amount, market) ==
    LET token_with_price == token_amount * market.price
    IN  IF token_amount = 0 THEN 0
        ELSE IF token_with_price < 0
             THEN FloorDiv(token_with_price, market.precision_decrease)
             ELSE token_with_price \div market.precision_decrease

\* SpotMarket::get_asset_weight
GetAssetWeight(market, margin_type) ==
    IF margin_type = "Initial" THEN market.initial_asset_weight
    ELSE market.maintenance_asset_weight

\* SpotMarket::get_liability_weight
GetLiabilityWeight(market, margin_type) ==
    IF margin_type = "Initial" THEN market.initial_liability_weight
    ELSE market.maintenance_liability_weight

\* the closure calculate_weighted_token_value of simulate_fills_both_sides
WeightedTokenValue(market, token_value, margin_type) ==
    IF token_value > 0
    THEN TruncDiv(token_value * GetAssetWeight(market, margin_type),
                  SPOT_WEIGHT_PRECISION)
    ELSE IF token_value < 0
    THEN TruncDiv(token_value * GetLiabilityWeight(market, margin_type),
                  SPOT_WEIGHT_PRECISION)
    ELSE 0

\* the closure simulate_side of simulate_fills_both_sides
SimulateSide(market, margin_type, token_amount, token_value, open_orders) ==
    LET order_value == GetTokenValue(-open_orders, market)
        token_value_after_fill == token_value - order_value
        weighted == WeightedTokenValue(market, token_value_after_fill,
                                       margin_type)
    IN  [token_amount |-> token_amount + open_orders,
         orders_value |-> order_value,
         token_value |-> token_value_after_fill,
         weighted_token_value |-> weighted,
         free_collateral_contribution |-> weighted + order_value]

\* SpotPosition::get_worst_case_fill_simulation
GetWorstCaseFillSimulation(p, market, token_amount, margin_type) ==
    LET token_value == GetTokenValue(token_amount, market)
        weighted == WeightedTokenValue(market, token_value, margin_type)
        bid == SimulateSide(market, margin_type, token_amount, token_value,
                            p.open_bids)
        ask == SimulateSide(market, margin_type, token_amount, token_value,
                            p.open_asks)
    IN  IF p.open_bids = 0 /\ p.open_asks = 0
        THEN [token_amount |-> token_amount, orders_value |-> 0,
              token_value |-> token_value, weighted_token_value |-> weighted,
              free_collateral_contribution |-> weighted]
        ELSE IF ask.free_collateral_contribution
                    < bid.free_collateral_contribution
             THEN ask ELSE bid

\* OrderFillSimulation::apply_user_custom_margin_ratio
ApplyUserCustomMarginRatio(sim, market, user_custom_margin_ratio) ==
    IF user_custom_margin_ratio = 0 THEN sim
    ELSE IF sim.weighted_token_value < 0
    THEN LET w == Max(GetLiabilityWeight(market, "Initial"),
                      user_custom_margin_ratio + SPOT_WEIGHT_PRECISION)
         IN  [sim EXCEPT !.weighted_token_value =
                  TruncDiv(sim.token_value * w, SPOT_WEIGHT_PRECISION)]
    ELSE IF sim.weighted_token_value > 0
    THEN LET w == Min(GetAssetWeight(market, "Initial"),
                      Max(SPOT_WEIGHT_PRECISION - user_custom_margin_ratio, 0))
         IN  [sim EXCEPT !.weighted_token_value =
                  TruncDiv(sim.token_value * w, SPOT_WEIGHT_PRECISION)]
    ELSE sim

\* GetMarginRatio with the high-leverage ratios taken in standard mode
GetMarginRatioSwapped(market, margin_type, high_leverage_mode) ==
    IF margin_type = "Initial"
    THEN (IF ~high_leverage_mode
          THEN market.high_leverage_margin_ratio_initial
          ELSE market.margin_ratio_initial)
    ELSE (IF ~high_leverage_mode
          THEN market.high_leverage_margin_ratio_maintenance
          ELSE market.margin_ratio_maintenance)

\* PerpMarket::get_margin_ratio
GetMarginRatio(market, margin_type, high_leverage_mode) ==
    IF margin_type = "Initial"
    THEN (IF high_leverage_mode THEN market.high_leverage_margin_ratio_initial
          ELSE market.margin_ratio_initial)
    ELSE (IF high_leverage_mode
          THEN market.high_leverage_margin_ratio_maintenance
          ELSE market.margin_ratio_maintenance)

\* PerpPosition::worst_case_base_asset_amount
WorstCaseBaseAssetAmount(p) ==
    LET base_bids == p.base_asset_amount + p.open_bids
        base_asks == p.base_asset_amount + p.open_asks
    IN  IF Abs(base_bids) > Abs(base_asks) THEN base_bids ELSE base_asks

\* math::margin::calculate_perp_position_value_and_pnl (quote price 1.0)
CalculatePerpPositionValueAndPnl(p, market, margin_type, user_custom_margin_ratio, user_high_leverage_mode) ==
    LET unrealized_pnl ==
            p.base_asset_amount * market.price + p.quote_asset_amount
        worst_case_liability_value ==
            Abs(WorstCaseBaseAssetAmount(p)) * market.price
        margin_ratio ==
            Max(user_custom_margin_ratio,
                GetMarginRatio(market, margin_type, user_high_leverage_mode))
        unrealized_asset_weight ==
            IF margin_type = "Initial"
            THEN market.unrealized_pnl_initial_asset_weight
            ELSE market.unrealized_pnl_maintenance_asset_weight
    IN  [perp_margin_requirement |->
            TruncDiv(worst_case_liability_value * margin_ratio,
                     MARGIN_PRECISION)
            + p.open_orders * OPEN_ORDER_MARGIN_REQUIREMENT,
         weighted_pnl |->
            IF unrealized_pnl > 0
            THEN TruncDiv(unrealized_pnl * unrealized_asset_weight,
                          SPOT_WEIGHT_PRECISION)
            ELSE unrealized_pnl,
         worst_case_liability_value |-> worst_case_liability_value]

----------------------------------------------------------------------------
(* Helpers of margin.rs *)

calculate_token_value(token_amount, market) ==
    GetTokenValue(token_amount, market)

calculate_spot_open_order_margin(position) ==
    position.open_orders * OPEN_ORDER_MARGIN_REQUIREMENT

----------------------------------------------------------------------------
(* calculate_simplified_margin_requirement: the totals are accumulated     *)
(* position by position; ok = FALSE records the panic of a lookup.         *)

ZeroTotals ==
    [ok |-> TRUE, total_collateral |-> 0, total_collateral_buffer |-> 0,
     margin_requirement |-> 0, margin_requirement_plus_buffer |-> 0]

\* body of the spot loop, for the quote market
SimplifiedQuoteSpot(acc, u, spot_position, spot_market, margin_buffer) ==
    LET signed_token_amount == GetSignedTokenAmount(spot_position)
        skip_token_value ==
            /\ u.pool_id = 1
            /\ spot_market.market_index = 0
            /\ ~SpotIsBorrow(spot_position)
        token_value == calculate_token_value(signed_token_amount, spot_market)
        liability_value == Abs(token_value)
    IN  IF spot_position.balance_type = "Deposit"
        THEN [acc EXCEPT !.total_collateral =
                  @ + (IF skip_token_value THEN 0 ELSE token_value)]
        ELSE [acc EXCEPT
                !.margin_requirement = @ + liability_value,
                !.margin_requirement_plus_buffer =
                    @ + liability_value
                      + TruncDiv(liability_value * margin_buffer,
                                 MARGIN_PRECISION)]

\* body of the spot loop, for every other market
SimplifiedGeneralSpot(acc, spot_position, spot_market, margin_type, margin_buffer, user_custom_margin_ratio) ==
    LET signed_token_amount == GetSignedTokenAmount(spot_position)
        sim == ApplyUserCustomMarginRatio(
                   GetWorstCaseFillSimulation(spot_position, spot_market,
                                              signed_token_amount,
                                              margin_type),
                   spot_market, user_custom_margin_ratio)
        worst_case_token_value == sim.token_value
        worst_case_weighted_token_value == sim.weighted_token_value
        worst_case_orders_value == sim.orders_value
        open_order_margin == calculate_spot_open_order_margin(spot_position)
        a1 == [acc EXCEPT !.margin_requirement = @ + open_order_margin]
        a2 == IF worst_case_token_value > 0
              THEN [a1 EXCEPT !.total_collateral =
                        @ + worst_case_weighted_token_value]
              ELSE IF worst_case_token_value < 0
              THEN [a1 EXCEPT
                      !.margin_requirement =
                          @ + Abs(worst_case_weighted_token_value),
                      !.margin_requirement_plus_buffer =
                          @ + Abs(worst_case_weighted_token_value)
                            + TruncDiv(Abs(worst_case_token_value)
                                         * margin_buffer, MARGIN_PRECISION)]
              ELSE a1
    IN  IF worst_case_orders_value > 0
        THEN [a2 EXCEPT !.total_collateral = @ + worst_case_orders_value]
        ELSE IF worst_case_orders_value < 0
        THEN [a2 EXCEPT
                !.margin_requirement = @ + Abs(worst_case_orders_value),
                !.margin_requirement_plus_buffer =
                    @ + Abs(worst_case_orders_value)
                      + TruncDiv(Abs(worst_case_orders_value) * margin_buffer,
                                 MARGIN_PRECISION)]
        ELSE a2

\* SimplifiedSpotStep without the skip of available positions
SimplifiedSpotStepNoSkip(acc, u, mst, spot_position, margin_type, margin_buffer, user_custom_margin_ratio) ==
    IF ~acc.ok THEN acc
    ELSE IF ~HasSpotMarket(mst, spot_position.market_index)
    THEN [acc EXCEPT !.ok = FALSE]
    ELSE LET spot_market == SpotMarketDef(spot_position.market_index)
         IN  IF spot_market.market_index = QUOTE_SPOT_MARKET_INDEX
             THEN SimplifiedQuoteSpot(acc, u, spot_position, spot_market,
                                      margin_buffer)
             ELSE SimplifiedGeneralSpot(acc, spot_position, spot_market,
                                        margin_type, margin_buffer,
                                        user_custom_margin_ratio)

\* one iteration of `for spot_position in &user.spot_positions`
SimplifiedSpotStep(acc, u, mst, spot_position, margin_type, margin_buffer, user_custom_margin_ratio) ==
    IF ~acc.ok \/ SpotIsAvailable(spot_position) THEN acc
    ELSE IF ~HasSpotMarket(mst, spot_position.market_index)
    THEN [acc EXCEPT !.ok = FALSE]
    ELSE LET spot_market == SpotMarketDef(spot_position.market_index)
         IN  IF spot_market.market_index = QUOTE_SPOT_MARKET_INDEX
             THEN SimplifiedQuoteSpot(acc, u, spot_position, spot_market,
                                      margin_buffer)
             ELSE SimplifiedGeneralSpot(acc, spot_position, spot_market,
                                        margin_type, margin_buffer,
                                        user_custom_margin_ratio)

\* one iteration of `for perp_position in &user.perp_positions`
SimplifiedPerpStep(acc, mst, perp_position, margin_type, margin_buffer, user_custom_margin_ratio, user_high_leverage_mode) ==
    IF ~acc.ok \/ PerpIsAvailable(perp_position) THEN acc
    ELSE IF ~HasPerpMarket(mst, perp_position.market_index)
    THEN [acc EXCEPT !.ok = FALSE]
    ELSE LET perp_market == PerpMarketDef(perp_position.market_index)
             perp_position_custom_margin_ratio ==
                 IF margin_type = "Initial"
                 THEN perp_position.max_margin_ratio ELSE 0
             r == CalculatePerpPositionValueAndPnl(
                      perp_position, perp_market, margin_type,
                      Max(user_custom_margin_ratio,
                          perp_position_custom_margin_ratio),
                      user_high_leverage_mode)
         IN  [acc EXCEPT
                !.margin_requirement = @ + r.perp_margin_requirement,
                !.margin_requirement_plus_buffer =
                    @ + r.perp_margin_requirement
                      + TruncDiv(r.worst_case_liability_value * margin_buffer,
                                 MARGIN_PRECISION),
                !.total_collateral = @ + r.weighted_pnl,
                !.total_collateral_buffer =
                    @ + (IF r.weighted_pnl < 0
                         THEN TruncDiv(r.weighted_pnl * margin_buffer,
                                       MARGIN_PRECISION)
                         ELSE 0)]

RECURSIVE SimplifiedSpotLoop(_, _, _, _, _, _, _)
SimplifiedSpotLoop(acc, u, mst, i, margin_type, margin_buffer, custom) ==
    IF i > Len(u.spot_positions) THEN acc
    ELSE SimplifiedSpotLoop(
             SimplifiedSpotStep(acc, u, mst, u.spot_positions[i], margin_type,
                                margin_buffer, custom),
             u, mst, i + 1, margin_type, margin_buffer, custom)

RECURSIVE SimplifiedPerpLoop(_, _, _, _, _, _, _, _)
SimplifiedPerpLoop(acc, u, mst, i, margin_type, margin_buffer, custom, hl) ==
    IF i > Len(u.perp_positions) THEN acc
    ELSE SimplifiedPerpLoop(
             SimplifiedPerpStep(acc, mst, u.perp_positions[i], margin_type,
                                margin_buffer, custom, hl),
             u, mst, i + 1, margin_type, margin_buffer, custom, hl)

calculate_simplified_margin_requirement(u, mst, margin_type, margin_buffer) ==
    LET user_high_leverage_mode == IsHighLeverageMode(u, margin_type)
        user_custom_margin_ratio ==
            IF margin_type = "Initial" THEN u.max_margin_ratio ELSE 0
        afterSpot == SimplifiedSpotLoop(ZeroTotals, u, mst, 1, margin_type,
                                        margin_buffer,
                                        user_custom_margin_ratio)
    IN  SimplifiedPerpLoop(afterSpot, u, mst, 1, margin_type, margin_buffer,
                           user_custom_margin_ratio, user_high_leverage_mode)

----------------------------------------------------------------------------
(* IncrementalMarginCalculation *)

DefaultPositionCollateral ==
    [collateral_value |-> 0, collateral_buffer |-> 0, liability_value |-> 0,
     liability_buffer |-> 0, last_updated |-> 0, market_index |-> 0]

DefaultSlots == [i \in 1..NumSlots |-> DefaultPositionCollateral]

\* PositionCollateral::exists
exists(c) ==
    c.liability_value # 0 \/ c.collateral_value # 0 \/ c.last_updated > 0

\* the closure of the `insert position` search
IsFreeSlot(x) ==
    x.last_updated = 0 /\ x.collateral_value = 0 /\ x.liability_value = 0

\* FindSlot that looks at the first slot only
FindSlotAtHead(slots, market_index) ==
    IF slots[1].market_index = market_index /\ exists(slots[1]) THEN 1 ELSE 0

\* iter().position(..): the lowest matching index, 0 when there is none
FindSlot(slots, market_index) ==
    LET hits == {i \in 1..NumSlots :
                    slots[i].market_index = market_index /\ exists(slots[i])}
    IN  IF hits = {} THEN 0
        ELSE CHOOSE i \in hits : \A j \in hits : i <= j

\* FirstFreeSlot that never offers the last slot
FirstFreeSlotButLast(slots) ==
    LET free == {i \in 1..(NumSlots - 1) : IsFreeSlot(slots[i])}
    IN  IF free = {} THEN 0
        ELSE CHOOSE i \in free : \A j \in free : i <= j

FirstFreeSlot(slots) ==
    LET free == {i \in 1..NumSlots : IsFreeSlot(slots[i])}
    IN  IF free = {} THEN 0
        ELSE CHOOSE i \in free : \A j \in free : i <= j

\* the three worst-case values of calculate_spot_position_collateral
WorstCaseValues(token_value, weighted_token_value, orders_value) ==
    [token_value |-> token_value,
     weighted_token_value |-> weighted_token_value,
     orders_value |-> orders_value]

\* QuoteWorstCase that excludes every quote position of pool 1
QuoteWorstCaseOfPool(spot_position, token_value, user_pool_id) ==
    IF ~(user_pool_id = 1)
    THEN WorstCaseValues(token_value, token_value, 0)
    ELSE WorstCaseValues(0, 0, 0)

\* the quote-market branch: the plain token value, none for a deposit of
\* pool 1
QuoteWorstCase(spot_position, token_value, user_pool_id) ==
    IF ~(user_pool_id = 1 /\ ~SpotIsBorrow(spot_position))
    THEN WorstCaseValues(token_value, token_value, 0)
    ELSE WorstCaseValues(0, 0, 0)

\* the branch of every other market: the worst-case fill simulation
SimulatedWorstCase(sim) ==
    WorstCaseValues(sim.token_value, sim.weighted_token_value,
                    sim.orders_value)

\* the liability of a negative value, with its buffer
LiabilityOf(value, liability, margin_buffer) ==
    IF value < 0
    THEN [liability_value |-> liability,
          liability_buffer |->
              liability + TruncDiv(liability * margin_buffer,
                                   MARGIN_PRECISION)]
    ELSE [liability_value |-> 0, liability_buffer |-> 0]

\* the PositionCollateral built from both liabilities
SpotCollateralOf(spot_position, w, fromToken, fromOrders, margin_buffer, timestamp) ==
    [market_index |-> spot_position.market_index,
     collateral_value |->
        (IF w.token_value > 0 THEN w.weighted_token_value ELSE 0)
        + (IF w.orders_value > 0 THEN w.orders_value ELSE 0),
     collateral_buffer |-> 0,
     liability_value |->
        fromToken.liability_value + fromOrders.liability_value
        + calculate_spot_open_order_margin(spot_position),
     liability_buffer |->
        fromToken.liability_buffer + fromOrders.liability_buffer,
     last_updated |-> timestamp]

\* the two `match` statements and the open-order margin
SpotCollateral(spot_position, w, margin_buffer, timestamp) ==
    SpotCollateralOf(
        spot_position, w,
        LiabilityOf(w.token_value, Abs(w.weighted_token_value),
                    margin_buffer),
        LiabilityOf(w.orders_value, Abs(w.orders_value), margin_buffer),
        margin_buffer, timestamp)

\* the choice between the quote market and the others
SpotWorstCase(spot_position, spot_market, signed_token_amount, margin_type, user_custom_margin_ratio, user_pool_id) ==
    IF spot_market.market_index = QUOTE_SPOT_MARKET_INDEX
    THEN QuoteWorstCase(
             spot_position,
             calculate_token_value(signed_token_amount, spot_market),
             user_pool_id)
    ELSE SimulatedWorstCase(
             ApplyUserCustomMarginRatio(
                 GetWorstCaseFillSimulation(spot_position, spot_market,
                                            signed_token_amount, margin_type),
                 spot_market, user_custom_margin_ratio))

calculate_spot_position_collateral(spot_position, margin_type, user_custom_margin_ratio, margin_buffer, timestamp, user_pool_id) ==
    SpotCollateral(
        spot_position,
        SpotWorstCase(spot_position,
                      SpotMarketDef(spot_position.market_index),
                      GetSignedTokenAmount(spot_position), margin_type,
                      user_custom_margin_ratio, user_pool_id),
        margin_buffer, timestamp)

\* PerpCollateral with the weighted PnL counted as collateral only when it is
\* positive
PerpCollateralOfGains(perp_position, r, margin_buffer, timestamp) ==
    [market_index |-> perp_position.market_index,
     collateral_value |-> Max(r.weighted_pnl, 0),
     collateral_buffer |->
        IF r.weighted_pnl < 0
        THEN TruncDiv(r.weighted_pnl * margin_buffer, MARGIN_PRECISION)
        ELSE 0,
     liability_value |-> r.perp_margin_requirement,
     liability_buffer |->
        r.perp_margin_requirement
        + TruncDiv(r.worst_case_liability_value * margin_buffer,
                   MARGIN_PRECISION),
     last_updated |-> timestamp]

\* the PositionCollateral built from the result of
\* calculate_perp_position_value_and_pnl
PerpCollateral(perp_position, r, margin_buffer, timestamp) ==
    [market_index |-> perp_position.market_index,
     collateral_value |-> r.weighted_pnl,
     collateral_buffer |->
        IF r.weighted_pnl < 0
        THEN TruncDiv(r.weighted_pnl * margin_buffer, MARGIN_PRECISION)
        ELSE 0,
     liability_value |-> r.perp_margin_requirement,
     liability_buffer |->
        r.perp_margin_requirement
        + TruncDiv(r.worst_case_liability_value * margin_buffer,
                   MARGIN_PRECISION),
     last_updated |-> timestamp]

calculate_perp_position_collateral(perp_position, margin_type, user_high_leverage_mode, margin_buffer, timestamp) ==
    PerpCollateral(
        perp_position,
        CalculatePerpPositionValueAndPnl(
            perp_position, PerpMarketDef(perp_position.market_index),
            margin_type, 0, user_high_leverage_mode),
        margin_buffer, timestamp)

\* IncrementalMarginCalculation::default with the fields new() sets
new(margin_type, user_high_leverage_mode, user_custom_margin_ratio, margin_buffer, user_pool_id) ==
    [total_collateral |-> 0, total_collateral_buffer |-> 0,
     margin_requirement |-> 0, margin_requirement_plus_buffer |-> 0,
     spot_collateral |-> DefaultSlots, perp_collateral |-> DefaultSlots,
     last_updated |-> 0,
     user_custom_margin_ratio |-> user_custom_margin_ratio,
     margin_buffer |-> margin_buffer, margin_type |-> margin_type,
     user_high_leverage_mode |-> user_high_leverage_mode,
     user_pool_id |-> user_pool_id]

\* SubtractOld that leaves the old liability_buffer in the total
SubtractOldKeepsBuffer(this, old) ==
    [this EXCEPT
        !.total_collateral = @ - old.collateral_value,
        !.margin_requirement = @ - old.liability_value,
        !.total_collateral_buffer = @ - old.collateral_buffer]

\* the four `-=` on the totals
SubtractOld(this, old) ==
    [this EXCEPT
        !.total_collateral = @ - old.collateral_value,
        !.margin_requirement = @ - old.liability_value,
        !.total_collateral_buffer = @ - old.collateral_buffer,
        !.margin_requirement_plus_buffer = @ - old.liability_buffer]

\* the four `+=` of the branches that add liability_buffer
AddNew(this, new_collateral) ==
    [this EXCEPT
        !.total_collateral = @ + new_collateral.collateral_value,
        !.margin_requirement = @ + new_collateral.liability_value,
        !.total_collateral_buffer = @ + new_collateral.collateral_buffer,
        !.margin_requirement_plus_buffer =
            @ + new_collateral.liability_buffer]

\* the four `+=` of the spot `New position` branch
AddNewSpot(this, new_collateral) ==
    [this EXCEPT
        !.total_collateral = @ + new_collateral.collateral_value,
        !.margin_requirement = @ + new_collateral.liability_value,
        !.total_collateral_buffer = @ + new_collateral.collateral_buffer,
        !.margin_requirement_plus_buffer =
            @ + new_collateral.liability_value
              + new_collateral.liability_buffer]

\* Touch without the assignment
TouchNot(r, timestamp) == r

\* `self.last_updated = timestamp`, reached when nothing panicked
Touch(r, timestamp) ==
    IF r.ok THEN [ok |-> TRUE,
                  this |-> [r.this EXCEPT !.last_updated = timestamp]]
    ELSE r

\* `insert position`: the contribution goes to the first free slot, when
\* there is one
StoreSpot(this, idx, new_collateral) ==
    IF idx # 0
    THEN [this EXCEPT !.spot_collateral[idx] = new_collateral]
    ELSE this

StorePerp(this, idx, new_collateral) ==
    IF idx # 0
    THEN [this EXCEPT !.perp_collateral[idx] = new_collateral]
    ELSE this

\* the found branch once the contribution is computed and the old one
\* subtracted
ReplaceSpotWith(sub, pos, spot_position, new_collateral) ==
    IF SpotIsAvailable(spot_position)
    THEN [sub EXCEPT !.spot_collateral[pos] = DefaultPositionCollateral]
    ELSE [AddNew(sub, new_collateral) EXCEPT
              !.spot_collateral[pos] = new_collateral]

ReplacePerpWith(sub, pos, perp_position, new_collateral) ==
    IF PerpIsAvailable(perp_position)
    THEN [sub EXCEPT !.perp_collateral[pos] = DefaultPositionCollateral]
    ELSE [AddNew(sub, new_collateral) EXCEPT
              !.perp_collateral[pos] = new_collateral]

\* update_spot_position, the branch of a slot found at pos
ReplaceSpot(this, pos, spot_position, mst, timestamp) ==
    IF ~HasSpotMarket(mst, spot_position.market_index)
    THEN [ok |-> FALSE, this |-> this]
    ELSE [ok |-> TRUE,
          this |->
            ReplaceSpotWith(
                SubtractOld(this, this.spot_collateral[pos]), pos,
                spot_position,
                calculate_spot_position_collateral(
                    spot_position, this.margin_type,
                    this.user_custom_margin_ratio, this.margin_buffer,
                    timestamp, this.user_pool_id))]

\* the `New position` branch of update_spot_position once the contribution
\* is computed
InsertSpotWith(this, new_collateral) ==
    [ok |-> TRUE,
     this |-> StoreSpot(AddNewSpot(this, new_collateral),
                        FirstFreeSlot(this.spot_collateral), new_collateral)]

\* InsertSpot that skips a position whose market is missing
InsertSpotSkipsMissing(this, spot_position, mst, timestamp) ==
    IF SpotIsAvailable(spot_position) THEN [ok |-> TRUE, this |-> this]
    ELSE IF ~HasSpotMarket(mst, spot_position.market_index)
    THEN [ok |-> TRUE, this |-> this]
    ELSE InsertSpotWith(
             this,
             calculate_spot_position_collateral(
                 spot_position, this.margin_type,
                 this.user_custom_margin_ratio, this.margin_buffer,
                 timestamp, this.user_pool_id))

\* update_spot_position, the branches of no slot found
InsertSpot(this, spot_position, mst, timestamp) ==
    IF SpotIsAvailable(spot_position) THEN [ok |-> TRUE, this |-> this]
    ELSE IF ~HasSpotMarket(mst, spot_position.market_index)
    THEN [ok |-> FALSE, this |-> this]
    ELSE InsertSpotWith(
             this,
             calculate_spot_position_collateral(
                 spot_position, this.margin_type,
                 this.user_custom_margin_ratio, this.margin_buffer,
                 timestamp, this.user_pool_id))

\* the branch update_spot_position takes for the slot search's result
UpdateSpotAt(this, pos, spot_position, mst, timestamp) ==
    IF pos # 0
    THEN ReplaceSpot(this, pos, spot_position, mst, timestamp)
    ELSE InsertSpot(this, spot_position, mst, timestamp)

update_spot_position(this, spot_position, mst, timestamp) ==
    Touch(UpdateSpotAt(
              this,
              FindSlot(this.spot_collateral, spot_position.market_index),
              spot_position, mst, timestamp),
          timestamp)

\* update_perp_position, the branch of a slot found at pos
ReplacePerp(this, pos, perp_position, mst, timestamp) ==
    IF ~HasPerpMarket(mst, perp_position.market_index)
    THEN [ok |-> FALSE, this |-> this]
    ELSE [ok |-> TRUE,
          this |->
            ReplacePerpWith(
                SubtractOld(this, this.perp_collateral[pos]), pos,
                perp_position,
                calculate_perp_position_collateral(
                    perp_position, this.margin_type,
                    this.user_high_leverage_mode, this.margin_buffer,
                    timestamp))]

\* the `New position` branch of update_perp_position once the contribution
\* is computed
InsertPerpWith(this, new_collateral) ==
    [ok |-> TRUE,
     this |-> StorePerp(AddNew(this, new_collateral),
                        FirstFreeSlot(this.perp_collateral), new_collateral)]

\* InsertPerp without the check that the position is not available
InsertPerpOfAvailable(this, perp_position, mst, timestamp) ==
    IF ~HasPerpMarket(mst, perp_position.market_index)
    THEN [ok |-> FALSE, this |-> this]
    ELSE InsertPerpWith(
             this,
             calculate_perp_position_collateral(
                 perp_position, this.margin_type,
                 this.user_high_leverage_mode, this.margin_buffer,
                 timestamp))

\* update_perp_position, the branches of no slot found
InsertPerp(this, perp_position, mst, timestamp) ==
    IF PerpIsAvailable(perp_position) THEN [ok |-> TRUE, this |-> this]
    ELSE IF ~HasPerpMarket(mst, perp_position.market_index)
    THEN [ok |-> FALSE, this |-> this]
    ELSE InsertPerpWith(
             this,
             calculate_perp_position_collateral(
                 perp_position, this.margin_type,
                 this.user_high_leverage_mode, this.margin_buffer,
                 timestamp))

\* the branch update_perp_position takes for the slot search's result
UpdatePerpAt(this, pos, perp_position, mst, timestamp) ==
    IF pos # 0
    THEN ReplacePerp(this, pos, perp_position, mst, timestamp)
    ELSE InsertPerp(this, perp_position, mst, timestamp)

update_perp_position(this, perp_position, mst, timestamp) ==
    Touch(UpdatePerpAt(
              this,
              FindSlot(this.perp_collateral, perp_position.market_index),
              perp_position, mst, timestamp),
          timestamp)

RECURSIVE CalculateSpotLoop(_, _, _, _, _)
CalculateSpotLoop(r, u, mst, i, timestamp) ==
    IF ~r.ok \/ i > Len(u.spot_positions) THEN r
    ELSE CalculateSpotLoop(
             IF SpotIsAvailable(u.spot_positions[i]) THEN r
             ELSE update_spot_position(r.this, u.spot_positions[i], mst,
                                       timestamp),
             u, mst, i + 1, timestamp)

RECURSIVE CalculatePerpLoop(_, _, _, _, _)
CalculatePerpLoop(r, u, mst, i, timestamp) ==
    IF ~r.ok \/ i > Len(u.perp_positions) THEN r
    ELSE CalculatePerpLoop(
             IF PerpIsAvailable(u.perp_positions[i]) THEN r
             ELSE update_perp_position(r.this, u.perp_positions[i], mst,
                                       timestamp),
             u, mst, i + 1, timestamp)

\* the reset at the head of calculate
ResetTotals(this) ==
    [this EXCEPT
        !.total_collateral = 0, !.margin_requirement = 0,
        !.total_collateral_buffer = 0, !.margin_requirement_plus_buffer = 0,
        !.spot_collateral = DefaultSlots, !.perp_collateral = DefaultSlots]

calculate(this, u, mst, timestamp) ==
    Touch(CalculatePerpLoop(
              CalculateSpotLoop([ok |-> TRUE, this |-> ResetTotals(this)],
                                u, mst, 1, timestamp),
              u, mst, 1, timestamp),
          timestamp)

from_user(u, mst, margin_type, timestamp, margin_buffer) ==
    LET user_high_leverage_mode == IsHighLeverageMode(u, margin_type)
        user_custom_margin_ratio ==
            IF margin_type = "Initial" THEN u.max_margin_ratio ELSE 0
    IN  calculate(new(margin_type, user_high_leverage_mode,
                      user_custom_margin_ratio, margin_buffer, u.pool_id),
                  u, mst, timestamp)

\* to_simplified with the two margin requirements exchanged
to_simplified_exchanged(this) ==
    [total_collateral |-> this.total_collateral,
     margin_requirement |-> this.margin_requirement_plus_buffer,
     total_collateral_buffer |-> this.total_collateral_buffer,
     margin_requirement_plus_buffer |-> this.margin_requirement]

to_simplified(this) ==
    [total_collateral |-> this.total_collateral,
     margin_requirement |-> this.margin_requirement,
     total_collateral_buffer |-> this.total_collateral_buffer,
     margin_requirement_plus_buffer |-> this.margin_requirement_plus_buffer]

----------------------------------------------------------------------------
(* The derived getters, identical on SimplifiedMarginCalculation and on    *)
(* IncrementalMarginCalculation.  i128 and u128 are scaled down to IntBits *)
(* bits.  `as i128` wraps; `-` panics on overflow when the build has       *)
(* overflow checks and wraps otherwise; saturating_add clamps.             *)

I128_MAX == 2 ^ (IntBits - 1) - 1

I128_MIN == -(2 ^ (IntBits - 1))

U128_MAX == 2 ^ IntBits - 1

InI128(x) == I128_MIN <= x /\ x <= I128_MAX

\* `x as i128` for an unsigned x
as_i128(x) == IF x > I128_MAX THEN x - 2 ^ IntBits ELSE x

wrapping_i128(x) == ((x - I128_MIN) % (2 ^ IntBits)) + I128_MIN

saturating_add(a, b) ==
    IF a + b > I128_MAX THEN I128_MAX
    ELSE IF a + b < I128_MIN THEN I128_MIN
    ELSE a + b

Value(v) == [ok |-> TRUE, value |-> v]

Panicked == [ok |-> FALSE, value |-> 0]

\* the operator `-` on i128
sub_i128(a, b, checks) ==
    IF InI128(a - b) THEN Value(a - b)
    ELSE IF checks THEN Panicked
    ELSE Value(wrapping_i128(a - b))

free_collateral(c, checks) ==
    sub_i128(c.total_collateral, as_i128(c.margin_requirement), checks)

get_total_collateral_plus_buffer(c) ==
    saturating_add(c.total_collateral, c.total_collateral_buffer)

free_collateral_with_buffer(c, checks) ==
    sub_i128(get_total_collateral_plus_buffer(c),
             as_i128(c.margin_requirement_plus_buffer), checks)

\* meets_margin_requirement with a strict comparison
meets_margin_requirement_strict(c) ==
    c.total_collateral > as_i128(c.margin_requirement)

meets_margin_requirement(c) ==
    c.total_collateral >= as_i128(c.margin_requirement)

meets_margin_requirement_with_buffer(c) ==
    get_total_collateral_plus_buffer(c)
        >= as_i128(c.margin_requirement_plus_buffer)

can_be_liquidated(calculation, checks) ==
    LET fc == free_collateral(calculation, checks)
    IN  IF fc.ok THEN Value(fc.value < 0) ELSE Panicked

----------------------------------------------------------------------------
(* The state machine: an account whose positions change one at a time, and *)
(* the cache its owner keeps for it.                                       *)

\* the accounts a cache is first built for: a new account, or one that
\* holds a position in every market (entry i of an array holds the position
\* of market i - 1, so at most one position per market index)
Users ==
    [spot_positions :
        { [i \in 1..(MaxSpotMarket + 1) |-> EmptySpot(i - 1)],
          [i \in 1..(MaxSpotMarket + 1) |-> HeldSpot(i - 1)] },
     perp_positions :
        { [i \in 1..(MaxPerpMarket + 1) |-> EmptyPerp(i - 1)],
          [i \in 1..(MaxPerpMarket + 1) |-> HeldPerp(i - 1)] },
     max_margin_ratio : {0, 2500},
     pool_id : {0, 1},
     margin_mode : {"Default", "HighLeverage"}]

NoCall ==
    [op |-> "none", spot |-> DefaultSpotPosition,
     perp |-> DefaultPerpPosition, timestamp |-> 0, pos |-> 0,
     margin_type |-> "Initial", margin_buffer |-> 0]

NoCalc ==
    [total_collateral |-> 0, margin_requirement |-> 0,
     total_collateral_buffer |-> 0, margin_requirement_plus_buffer |-> 0]

NoGetter == [evaluated |-> FALSE]

Init ==
    /\ user \in Users
    /\ ms = [spot |-> {}, perp |-> {}]
    /\ cache = new("Initial", FALSE, 0, 0, 0)
    /\ call = NoCall
    /\ outcome = "ok"
    /\ steps = 0
    /\ overflow_checks = TRUE
    /\ calc = NoCalc
    /\ getter = NoGetter

Built == call.op # "none"

Outcome(r) == IF r.ok THEN "ok" ELSE "panic"

\* the call returns the cache, or panics and leaves it as it was
Returns(r) ==
    /\ cache' = r.this
    /\ outcome' = Outcome(r)

FromUser(mst, margin_type, timestamp, margin_buffer) ==
    /\ outcome = "ok"
    /\ steps < MaxSteps
    /\ Returns(from_user(user, mst, margin_type, timestamp, margin_buffer))
    /\ call' = [NoCall EXCEPT !.op = "from_user", !.timestamp = timestamp]
    /\ steps' = steps + 1
    /\ ms' = mst
    /\ UNCHANGED <<user, overflow_checks, calc, getter>>

Calculate(mst, timestamp) ==
    /\ outcome = "ok"
    /\ Built
    /\ steps < MaxSteps
    /\ Returns(calculate(cache, user, mst, timestamp))
    /\ call' = [NoCall EXCEPT !.op = "calculate", !.timestamp = timestamp]
    /\ steps' = steps + 1
    /\ ms' = mst
    /\ UNCHANGED <<user, overflow_checks, calc, getter>>

\* the owner changes the spot position of market m and updates the cache
UpdateSpot(mst, m, p, timestamp) ==
    /\ outcome = "ok"
    /\ Built
    /\ steps < MaxSteps
    /\ user' = [user EXCEPT !.spot_positions[m + 1] = p]
    /\ Returns(update_spot_position(cache, p, mst, timestamp))
    /\ call' = [NoCall EXCEPT !.op = "update_spot", !.spot = p,
                              !.timestamp = timestamp,
                              !.pos = FindSlot(cache.spot_collateral, m)]
    /\ steps' = steps + 1
    /\ ms' = mst
    /\ UNCHANGED <<overflow_checks, calc, getter>>

\* the owner changes the perp position of market m and updates the cache
UpdatePerp(mst, m, p, timestamp) ==
    /\ outcome = "ok"
    /\ Built
    /\ steps < MaxSteps
    /\ user' = [user EXCEPT !.perp_positions[m + 1] = p]
    /\ Returns(update_perp_position(cache, p, mst, timestamp))
    /\ call' = [NoCall EXCEPT !.op = "update_perp", !.perp = p,
                              !.timestamp = timestamp,
                              !.pos = FindSlot(cache.perp_collateral, m)]
    /\ steps' = steps + 1
    /\ ms' = mst
    /\ UNCHANGED <<overflow_checks, calc, getter>>

\* the owner projects the cache; the cache is borrowed immutably
ToSimplified ==
    /\ outcome = "ok"
    /\ Built
    /\ steps < MaxSteps
    /\ calc' = to_simplified(cache)
    /\ call' = [NoCall EXCEPT !.op = "to_simplified"]
    /\ steps' = steps + 1
    /\ UNCHANGED <<user, ms, cache, outcome, overflow_checks, getter>>

Next ==
    \/ ToSimplified
    \/ \E mst \in Snapshots, mt \in MarginTypes, t \in Timestamps,
          b \in MarginBuffers : FromUser(mst, mt, t, b)
    \/ \E mst \in Snapshots, t \in Timestamps : Calculate(mst, t)
    \/ \E mst \in Snapshots, m \in SpotIndexes, t \in Timestamps :
          \E p \in SpotChoices(m) \cup {EmptySpot(m)} :
              UpdateSpot(mst, m, p, t)
    \/ \E mst \in Snapshots, m \in PerpIndexes, t \in Timestamps :
          \E p \in PerpChoices(m) \cup {EmptyPerp(m)} :
              UpdatePerp(mst, m, p, t)

Spec == Init /\ [][Next]_vars

----------------------------------------------------------------------------
(* The getters on their own: a result with totals anywhere in the integer  *)
(* range, built with or without overflow checks.                           *)

SignedEdge == {I128_MIN, -1, 0, 1, I128_MAX}

UnsignedEdge == {0, 1, I128_MAX, I128_MAX + 1, U128_MAX}

InitGetters ==
    /\ user \in {u \in Users :
                    /\ u.max_margin_ratio = 0 /\ u.pool_id = 0
                    /\ u.margin_mode = "Default"
                    /\ \A i \in DOMAIN u.spot_positions :
                          SpotIsAvailable(u.spot_positions[i])
                    /\ \A i \in DOMAIN u.perp_positions :
                          PerpIsAvailable(u.perp_positions[i])}
    /\ ms = [spot |-> {}, perp |-> {}]
    /\ cache = new("Initial", FALSE, 0, 0, 0)
    /\ call = NoCall
    /\ outcome = "ok"
    /\ steps = 0
    /\ overflow_checks \in BOOLEAN
    /\ calc \in [total_collateral : SignedEdge,
                 total_collateral_buffer : SignedEdge,
                 margin_requirement : UnsignedEdge,
                 margin_requirement_plus_buffer : UnsignedEdge]
    /\ getter = NoGetter

EvaluateGetters ==
    /\ ~getter.evaluated
    /\ getter' =
          [evaluated |-> TRUE,
           free_collateral |-> free_collateral(calc, overflow_checks),
           get_total_collateral_plus_buffer |->
               Value(get_total_collateral_plus_buffer(calc)),
           free_collateral_with_buffer |->
               free_collateral_with_buffer(calc, overflow_checks),
           meets_margin_requirement |->
               Value(meets_margin_requirement(calc)),
           meets_margin_requirement_with_buffer |->
               Value(meets_margin_requirement_with_buffer(calc)),
           can_be_liquidated |-> can_be_liquidated(calc, overflow_checks)]
    /\ UNCHANGED <<user, ms, cache, call, outcome, steps, overflow_checks,
                   calc>>

NextGetters == EvaluateGetters

SpecGetters == InitGetters /\ [][NextGetters]_vars

----------------------------------------------------------------------------
(* The one-shot calculation on its own: any account over the positions,    *)
(* any snapshot, one call of calculate_simplified_margin_requirement.      *)

MarginModes == {"Default", "HighLeverage", "HighLeverageMaintenance"}

\* the positions an account may hold, over all markets
AnySpot == UNION {SpotChoices(m) \cup {EmptySpot(m)} : m \in SpotIndexes}

AnyPerp == UNION {PerpChoices(m) \cup {EmptyPerp(m)} : m \in PerpIndexes}

\* every account: entry i of an array holds a position of market i - 1
Accounts ==
    [spot_positions :
        {f \in [1..(MaxSpotMarket + 1) -> AnySpot] :
            \A i \in DOMAIN f : f[i].market_index = i - 1},
     perp_positions :
        {f \in [1..(MaxPerpMarket + 1) -> AnyPerp] :
            \A i \in DOMAIN f : f[i].market_index = i - 1},
     max_margin_ratio : {0, 2500},
     pool_id : {0, 1},
     margin_mode : MarginModes]

InitSimplified ==
    /\ user \in Accounts
    /\ ms \in Snapshots
    /\ cache = new("Initial", FALSE, 0, 0, 0)
    /\ call = NoCall
    /\ outcome = "ok"
    /\ steps = 0
    /\ overflow_checks = TRUE
    /\ calc = NoCalc
    /\ getter = NoGetter

\* the call returns its four totals, or panics
SimplifiedReturns(r) ==
    /\ calc' = [total_collateral |-> r.total_collateral,
                total_collateral_buffer |-> r.total_collateral_buffer,
                margin_requirement |-> r.margin_requirement,
                margin_requirement_plus_buffer |->
                    r.margin_requirement_plus_buffer]
    /\ outcome' = Outcome(r)

CalculateSimplified(margin_type, margin_buffer) ==
    /\ call.op = "none"
    /\ SimplifiedReturns(calculate_simplified_margin_requirement(
                             user, ms, margin_type, margin_buffer))
    /\ call' = [NoCall EXCEPT !.op = "simplified",
                              !.margin_type = margin_type,
                              !.margin_buffer = margin_buffer]
    /\ steps' = steps + 1
    /\ UNCHANGED <<user, ms, cache, overflow_checks, getter>>

\* one call on the account: the one-shot calculation, or from_user
NextSimplified ==
    \/ \E mt \in MarginTypes, b \in MarginBuffers :
          CalculateSimplified(mt, b)
    \/ \E mt \in MarginTypes, t \in Timestamps, b \in MarginBuffers :
          call.op = "none" /\ FromUser(ms, mt, t, b)

SpecSimplified == InitSimplified /\ [][NextSimplified]_vars

----------------------------------------------------------------------------
(* The cache at its capacity: an account that holds positions in nearly    *)
(* all or all of the NumSlots markets a slot array has room for, the cache *)
(* from_user builds for it, and updates of the last markets.               *)

\* one market index more than a slot array has slots
ManyIndexes == 0..NumSlots

FullSnapshot == [spot |-> ManyIndexes, perp |-> ManyIndexes]

\* the markets whose positions change
LastIndexes == {NumSlots - 1, NumSlots}

\* the account that holds the first k spot and the first j perp markets
HoldingAccount(k, j, pool_id) ==
    [spot_positions |->
        [i \in 1..(NumSlots + 1) |->
            IF i <= k THEN HeldSpot(i - 1) ELSE EmptySpot(i - 1)],
     perp_positions |->
        [i \in 1..(NumSlots + 1) |->
            IF i <= j THEN HeldPerp(i - 1) ELSE EmptyPerp(i - 1)],
     max_margin_ratio |-> 0,
     pool_id |-> pool_id,
     margin_mode |-> "Default"]

SlotAccounts ==
    {HoldingAccount(k, j, pool_id) :
        k \in LastIndexes, j \in LastIndexes, pool_id \in {0, 1}}

\* the cache is the one from_user returned
BuiltBy(r, timestamp) ==
    /\ r.ok
    /\ cache = r.this
    /\ call = [NoCall EXCEPT !.op = "from_user", !.timestamp = timestamp]

InitSlots ==
    /\ user \in SlotAccounts
    /\ ms = FullSnapshot
    /\ \E t \in Timestamps, b \in MarginBuffers :
          BuiltBy(from_user(user, FullSnapshot, "Initial", t, b), t)
    /\ outcome = "ok"
    /\ steps = 0
    /\ overflow_checks = TRUE
    /\ calc = NoCalc
    /\ getter = NoGetter

NextSlots ==
    \/ \E m \in LastIndexes, t \in Timestamps :
          \E p \in {HeldSpot(m), EmptySpot(m)} :
              UpdateSpot(FullSnapshot, m, p, t)
    \/ \E m \in LastIndexes, t \in Timestamps :
          \E p \in {HeldPerp(m), EmptyPerp(m)} :
              UpdatePerp(FullSnapshot, m, p, t)

SpecSlots == InitSlots /\ [][NextSlots]_vars

----------------------------------------------------------------------------
(* Properties *)

Totals(c) ==
    <<c.total_collateral, c.total_collateral_buffer, c.margin_requirement,
      c.margin_requirement_plus_buffer>>

Fields(c) ==
    <<c.collateral_value, c.collateral_buffer, c.liability_value,
      c.liability_buffer>>

ZeroFields == <<0, 0, 0, 0>>

Plus(a, b) == [i \in 1..4 |-> a[i] + b[i]]

Minus(a, b) == [i \in 1..4 |-> a[i] - b[i]]

RECURSIVE SumPresent(_, _)
SumPresent(slots, n) ==
    IF n = 0 THEN ZeroFields
    ELSE Plus(SumPresent(slots, n - 1),
              IF exists(slots[n]) THEN Fields(slots[n]) ELSE ZeroFields)

AllAvailable(u) ==
    /\ \A i \in DOMAIN u.spot_positions : SpotIsAvailable(u.spot_positions[i])
    /\ \A i \in DOMAIN u.perp_positions : PerpIsAvailable(u.perp_positions[i])

\* some non-empty position of the account has no market in the snapshot
MissingMarket(u, mst) ==
    \/ \E i \in DOMAIN u.spot_positions :
          /\ ~SpotIsAvailable(u.spot_positions[i])
          /\ ~HasSpotMarket(mst, u.spot_positions[i].market_index)
    \/ \E i \in DOMAIN u.perp_positions :
          /\ ~PerpIsAvailable(u.perp_positions[i])
          /\ ~HasPerpMarket(mst, u.perp_positions[i].market_index)

IsUpdate(c) == c.op \in {"update_spot", "update_perp"}

\* the position an update was called with is available
UpdateOfAvailable(c) ==
    \/ c.op = "update_spot" /\ SpotIsAvailable(c.spot)
    \/ c.op = "update_perp" /\ PerpIsAvailable(c.perp)

\* C1: a cache built by from_user has the total_collateral, the
\* margin_requirement and the free_collateral() that
\* calculate_simplified_margin_requirement returns on the same account,
\* snapshot, margin type and buffer.
C1_FromUserEqualsSimplified ==
    (call.op = "from_user" /\ outcome = "ok") =>
        LET s == calculate_simplified_margin_requirement(
                     user, ms, cache.margin_type, cache.margin_buffer)
        IN  /\ s.ok
            /\ s.total_collateral = cache.total_collateral
            /\ s.margin_requirement = cache.margin_requirement
            /\ free_collateral(s, overflow_checks)
                   = free_collateral(cache, overflow_checks)

\* C2: a cache built by from_user has the total_collateral_buffer and the
\* margin_requirement_plus_buffer that
\* calculate_simplified_margin_requirement returns on the same inputs.
C2_FromUserBufferedEqualsSimplified ==
    (call.op = "from_user" /\ outcome = "ok") =>
        LET s == calculate_simplified_margin_requirement(
                     user, ms, cache.margin_type, cache.margin_buffer)
        IN  /\ s.ok
            /\ s.total_collateral_buffer = cache.total_collateral_buffer
            /\ s.margin_requirement_plus_buffer
                   = cache.margin_requirement_plus_buffer

\* C3: after every single-position update the four running totals equal
\* those of a cache rebuilt from scratch on the mutated account.
C3_UpdateEqualsRebuild ==
    (IsUpdate(call) /\ outcome = "ok") =>
        LET r == from_user(user, ms, cache.margin_type, call.timestamp,
                           cache.margin_buffer)
        IN  r.ok => Totals(r.this) = Totals(cache)

\* C4: each running total is the sum of the corresponding field over the
\* present spot and perp slots.
C4_TotalsAreSlotSums ==
    Totals(cache) = Plus(SumPresent(cache.spot_collateral, NumSlots),
                         SumPresent(cache.perp_collateral, NumSlots))

\* C5: an update for a market index that has a present slot changes each
\* running total by minus the slot's old field plus the new contribution's
\* field (nothing added for an empty position), overwrites that slot with the
\* new contribution (the default for an empty position) and changes no other
\* slot.
C5_UpdateOfPresentSlot ==
    [][(IsUpdate(call') /\ call'.pos # 0 /\ outcome' = "ok") =>
         LET spot == call'.op = "update_spot"
             old == IF spot THEN cache.spot_collateral[call'.pos]
                    ELSE cache.perp_collateral[call'.pos]
             new_collateral ==
                 IF spot
                 THEN calculate_spot_position_collateral(
                          call'.spot, cache.margin_type,
                          cache.user_custom_margin_ratio,
                          cache.margin_buffer, call'.timestamp,
                          cache.user_pool_id)
                 ELSE calculate_perp_position_collateral(
                          call'.perp, cache.margin_type,
                          cache.user_high_leverage_mode,
                          cache.margin_buffer, call'.timestamp)
             stored == IF UpdateOfAvailable(call')
                       THEN DefaultPositionCollateral ELSE new_collateral
             added == IF UpdateOfAvailable(call')
                      THEN ZeroFields ELSE Fields(new_collateral)
         IN  /\ Totals(cache')
                   = Plus(Minus(Totals(cache), Fields(old)), added)
             /\ IF spot
                THEN /\ cache'.spot_collateral =
                           [cache.spot_collateral EXCEPT
                               ![call'.pos] = stored]
                     /\ cache'.perp_collateral = cache.perp_collateral
                ELSE /\ cache'.perp_collateral =
                           [cache.perp_collateral EXCEPT
                               ![call'.pos] = stored]
                     /\ cache'.spot_collateral = cache.spot_collateral
      ]_vars

\* an update replaced the contribution of a present slot while another slot
\* of the same array was present
C5_Witness ==
    /\ call.op = "update_spot" /\ call.pos # 0 /\ outcome = "ok"
    /\ ~SpotIsAvailable(call.spot)
    /\ \E i \in 1..NumSlots :
          i # call.pos /\ exists(cache.spot_collateral[i])

\* C6: an update with a non-empty position whose market index has no
\* present slot stores the contribution in the lowest-index free slot and
\* raises each running total by the stored contribution's field, for spot and
\* perp alike.
C6_InsertAddsContribution ==
    [][(IsUpdate(call') /\ call'.pos = 0 /\ ~UpdateOfAvailable(call')
        /\ outcome' = "ok") =>
         LET spot == call'.op = "update_spot"
             idx == IF spot THEN FirstFreeSlot(cache.spot_collateral)
                    ELSE FirstFreeSlot(cache.perp_collateral)
             stored == IF spot THEN cache'.spot_collateral[idx]
                       ELSE cache'.perp_collateral[idx]
             new_collateral ==
                 IF spot
                 THEN calculate_spot_position_collateral(
                          call'.spot, cache.margin_type,
                          cache.user_custom_margin_ratio,
                          cache.margin_buffer, call'.timestamp,
                          cache.user_pool_id)
                 ELSE calculate_perp_position_collateral(
                          call'.perp, cache.margin_type,
                          cache.user_high_leverage_mode,
                          cache.margin_buffer, call'.timestamp)
         IN  /\ idx # 0
             /\ stored = new_collateral
             /\ Totals(cache') = Plus(Totals(cache), Fields(stored))
      ]_vars

\* C7: an update with an available position whose market index has no
\* present slot leaves the four running totals and both slot arrays
\* unchanged.
C7_UpdateOfAbsentAvailable ==
    [][(IsUpdate(call') /\ call'.pos = 0 /\ UpdateOfAvailable(call')) =>
         /\ outcome' = "ok"
         /\ Totals(cache') = Totals(cache)
         /\ cache'.spot_collateral = cache.spot_collateral
         /\ cache'.perp_collateral = cache.perp_collateral
      ]_vars

\* an update with an emptied perp position met no slot, with the market in
\* the snapshot and a non-zero timestamp
C7_Witness ==
    /\ call.op = "update_perp" /\ call.pos = 0 /\ PerpIsAvailable(call.perp)
    /\ HasPerpMarket(ms, call.perp.market_index)
    /\ call.timestamp > 0
    /\ outcome = "ok"

\* C8: an account whose positions are all available gets zero totals from
\* calculate_simplified_margin_requirement for every margin type and buffer,
\* and from from_user and calculate, whatever the snapshot holds.
C8_AllAvailableIsZero ==
    AllAvailable(user) =>
        /\ \A mst \in Snapshots, mt \in MarginTypes, b \in MarginBuffers :
              calculate_simplified_margin_requirement(user, mst, mt, b)
                  = ZeroTotals
        /\ call.op \in {"from_user", "calculate"} =>
              /\ outcome = "ok"
              /\ Totals(cache) = ZeroFields
              /\ cache.spot_collateral = DefaultSlots
              /\ cache.perp_collateral = DefaultSlots

\* a cache was built for an account without positions from a snapshot
\* without markets
C8_Witness ==
    /\ call.op = "from_user"
    /\ AllAvailable(user)
    /\ ms = [spot |-> {}, perp |-> {}]

\* C9: with a non-empty position whose market has no entry in the snapshot,
\* calculate_simplified_margin_requirement, from_user, calculate and the
\* single-position updates fail; a failing single-position update leaves the
\* running totals and both slot arrays as they were.
C9_MissingMarketFails ==
    [][/\ (call'.op \in {"from_user", "calculate"}
             /\ MissingMarket(user', ms')) => outcome' = "panic"
       /\ (call'.op = "update_spot" /\ ~SpotIsAvailable(call'.spot)
             /\ ~HasSpotMarket(ms', call'.spot.market_index))
            => outcome' = "panic"
       /\ (call'.op = "update_perp" /\ ~PerpIsAvailable(call'.perp)
             /\ ~HasPerpMarket(ms', call'.perp.market_index))
            => outcome' = "panic"
       /\ MissingMarket(user', ms') =>
            \A mt \in MarginTypes, b \in MarginBuffers :
                ~calculate_simplified_margin_requirement(user', ms', mt, b).ok
       /\ (IsUpdate(call') /\ outcome' = "panic") =>
            /\ Totals(cache') = Totals(cache)
            /\ cache'.spot_collateral = cache.spot_collateral
            /\ cache'.perp_collateral = cache.perp_collateral
      ]_vars

\* an update with a non-empty spot position failed on a snapshot without
\* its market, on a cache that holds contributions
C9_Witness ==
    /\ call.op = "update_spot" /\ outcome = "panic"
    /\ ~SpotIsAvailable(call.spot)
    /\ ~HasSpotMarket(ms, call.spot.market_index)
    /\ Totals(cache) # ZeroFields

\* C10: whenever a step of a getter would leave the integer range (the sum
\* of total_collateral and total_collateral_buffer, the cast of a
\* requirement to i128, the subtraction of the requirement), the getter
\* reports a failure instead of a value.
C10_GettersReportOverflow ==
    getter.evaluated =>
        LET plus == calc.total_collateral + calc.total_collateral_buffer
            castOverflows == calc.margin_requirement > I128_MAX
            castBufferOverflows ==
                calc.margin_requirement_plus_buffer > I128_MAX
        IN  /\ ~InI128(plus) =>
                  /\ ~getter.get_total_collateral_plus_buffer.ok
                  /\ ~getter.free_collateral_with_buffer.ok
                  /\ ~getter.meets_margin_requirement_with_buffer.ok
            /\ castOverflows =>
                  /\ ~getter.free_collateral.ok
                  /\ ~getter.meets_margin_requirement.ok
            /\ castBufferOverflows =>
                  /\ ~getter.free_collateral_with_buffer.ok
                  /\ ~getter.meets_margin_requirement_with_buffer.ok
            /\ ~InI128(calc.total_collateral - calc.margin_requirement) =>
                  ~getter.free_collateral.ok

\* C11: with margin_buffer = 0, for every account and snapshot, the result
\* of calculate_simplified_margin_requirement has total_collateral_buffer
\* = 0 and margin_requirement_plus_buffer = margin_requirement.
C11_NoBufferNoBufferedDifference ==
    (call.op = "simplified" /\ outcome = "ok" /\ call.margin_buffer = 0)
        => /\ calc.total_collateral_buffer = 0
           /\ calc.margin_requirement_plus_buffer = calc.margin_requirement

\* the result rb of a call with a positive buffer against the result r0 of
\* the call with buffer 0 on the same account and snapshot
BufferRaises(r0, rb) ==
    /\ rb.margin_requirement_plus_buffer >= r0.margin_requirement_plus_buffer
    /\ rb.margin_requirement_plus_buffer >= r0.margin_requirement
    /\ free_collateral_with_buffer(rb, overflow_checks).value
           <= free_collateral(r0, overflow_checks).value

\* C12: for a fixed account and snapshot and a positive margin buffer b, the
\* result computed with buffer b has margin_requirement_plus_buffer not less
\* than the margin_requirement_plus_buffer and the margin_requirement
\* computed with buffer 0, and free_collateral_with_buffer() not greater
\* than the free_collateral() computed with buffer 0.
C12_BufferIsMonotone ==
    (call.op = "simplified" /\ outcome = "ok" /\ call.margin_buffer > 0)
        => BufferRaises(
               calculate_simplified_margin_requirement(
                   user, ms, call.margin_type, 0),
               calc)

\* the same account in standard mode
StandardMode(u) == [u EXCEPT !.margin_mode = "Default"]

\* the totals of the spot positions of account u alone
SpotTotals(u, mst, margin_type, margin_buffer) ==
    Totals(SimplifiedSpotLoop(
               ZeroTotals, u, mst, 1, margin_type, margin_buffer,
               IF margin_type = "Initial" THEN u.max_margin_ratio ELSE 0))

\* C13: for the same positions, markets and prices (the high-leverage
\* margin ratios of a market are not above its standard ratios), the
\* margin_requirement of an account in high-leverage mode is less than or
\* equal to the margin_requirement of the same account in standard mode,
\* for both margin types, and the spot contributions are the same in both
\* modes.
C13_HighLeverageNotAboveStandard ==
    (/\ call.op = "simplified" /\ outcome = "ok"
     /\ IsHighLeverageMode(user, call.margin_type))
        => /\ calc.margin_requirement
                <= calculate_simplified_margin_requirement(
                       StandardMode(user), ms, call.margin_type,
                       call.margin_buffer).margin_requirement
           /\ SpotTotals(user, ms, call.margin_type, call.margin_buffer)
                = SpotTotals(StandardMode(user), ms, call.margin_type,
                             call.margin_buffer)

\* an account in high-leverage mode with a spot borrow and a perp position,
\* whose requirement is strictly below that of standard mode
C13_Witness ==
    /\ call.op = "simplified" /\ outcome = "ok"
    /\ call.margin_type = "Maintenance"
    /\ user.margin_mode = "HighLeverageMaintenance"
    /\ \E i \in DOMAIN user.perp_positions :
          ~PerpIsAvailable(user.perp_positions[i])
    /\ \E i \in DOMAIN user.spot_positions :
          SpotIsBorrow(user.spot_positions[i])
    /\ calc.margin_requirement
          < calculate_simplified_margin_requirement(
                StandardMode(user), ms, call.margin_type,
                call.margin_buffer).margin_requirement

\* the only non-empty position of account u is a deposit in the quote spot
\* market, without open orders
QuoteDepositOnly(u) ==
    /\ \A i \in DOMAIN u.perp_positions : PerpIsAvailable(u.perp_positions[i])
    /\ \A i \in DOMAIN u.spot_positions :
          IF u.spot_positions[i].market_index = QUOTE_SPOT_MARKET_INDEX
          THEN /\ u.spot_positions[i].balance_type = "Deposit"
               /\ u.spot_positions[i].scaled_balance > 0
               /\ u.spot_positions[i].open_orders = 0
               /\ u.spot_positions[i].open_bids = 0
               /\ u.spot_positions[i].open_asks = 0
          ELSE SpotIsAvailable(u.spot_positions[i])

\* the quote deposit of account u, doubled
DoubledDeposit(u) ==
    [u.spot_positions[QUOTE_SPOT_MARKET_INDEX + 1]
        EXCEPT !.scaled_balance = 2 * @]

\* result c has free collateral and cannot be liquidated
HasFreeCollateral(c) ==
    /\ free_collateral(c, overflow_checks).value > 0
    /\ ~can_be_liquidated(c, overflow_checks).value

\* the one-shot result, the cache as the calls left it, a cache rebuilt
\* for the account, and the rebuilt cache after the deposit was raised
SolventOnQuoteDeposit(simplified, kept, rebuilt, raised) ==
    /\ HasFreeCollateral(simplified)
    /\ HasFreeCollateral(kept)
    /\ rebuilt.ok /\ HasFreeCollateral(rebuilt.this)
    /\ raised.ok
    /\ free_collateral(raised.this, overflow_checks).value
          > free_collateral(rebuilt.this, overflow_checks).value

\* C14: an account whose only non-empty position is a non-zero deposit in
\* the quote spot market at a positive price has free_collateral() > 0 and
\* cannot be liquidated, from calculate_simplified_margin_requirement and
\* from from_user alike, for every pool_id (pool_id = 1 included), and
\* raising the deposit through update_spot_position strictly increases
\* free_collateral().
C14_QuoteDepositIsFreeCollateral ==
    (/\ Built /\ outcome = "ok"
     /\ QuoteDepositOnly(user)
     /\ HasSpotMarket(ms, QUOTE_SPOT_MARKET_INDEX))
        => SolventOnQuoteDeposit(
               calculate_simplified_margin_requirement(
                   user, ms, cache.margin_type, cache.margin_buffer),
               cache,
               from_user(user, ms, cache.margin_type, call.timestamp,
                         cache.margin_buffer),
               update_spot_position(
                   from_user(user, ms, cache.margin_type, call.timestamp,
                             cache.margin_buffer).this,
                   DoubledDeposit(user), ms, call.timestamp))

\* account u holds a spot borrow
HoldsSpotBorrow(u) ==
    \E i \in DOMAIN u.spot_positions : SpotIsBorrow(u.spot_positions[i])

\* C15: for an account with a non-zero custom max_margin_ratio that holds a
\* spot borrow (in the quote market as in any other), the margin_requirement
\* computed for margin type Initial is strictly greater than the
\* margin_requirement computed for Maintenance on the same snapshot.
C15_CustomRatioRaisesInitial ==
    (/\ call.op = "simplified" /\ outcome = "ok"
     /\ call.margin_type = "Initial"
     /\ user.max_margin_ratio > 0
     /\ HoldsSpotBorrow(user))
        => calc.margin_requirement
             > calculate_simplified_margin_requirement(
                   user, ms, "Maintenance", call.margin_buffer
               ).margin_requirement

\* the collateral and the margin requirement a path adds for one position
Contribution(acc) == <<acc.total_collateral, acc.margin_requirement>>

\* the quote-market position of account u
QuotePosition(u) == u.spot_positions[QUOTE_SPOT_MARKET_INDEX + 1]

\* C16: for a quote-market spot position with zero open bids, asks and
\* orders, the collateral and margin-requirement contributions of the
\* general worst-case-fill path (simulation, weighting, sign dispatch)
\* equal those of the fast path for the same market, balance and price.
C16_GeneralPathEqualsFastPath ==
    (/\ call.op = "simplified" /\ outcome = "ok"
     /\ HasSpotMarket(ms, QUOTE_SPOT_MARKET_INDEX)
     /\ ~SpotIsAvailable(QuotePosition(user))
     /\ QuotePosition(user).open_bids = 0
     /\ QuotePosition(user).open_asks = 0
     /\ QuotePosition(user).open_orders = 0)
        => Contribution(
               SimplifiedGeneralSpot(
                   ZeroTotals, QuotePosition(user),
                   SpotMarketDef(QUOTE_SPOT_MARKET_INDEX), call.margin_type,
                   call.margin_buffer,
                   IF call.margin_type = "Initial"
                   THEN user.max_margin_ratio ELSE 0))
             = Contribution(
                   SimplifiedQuoteSpot(
                       ZeroTotals, user, QuotePosition(user),
                       SpotMarketDef(QUOTE_SPOT_MARKET_INDEX),
                       call.margin_buffer))

\* no step of a getter on result c leaves the integer range
NonOverflowing(c) ==
    /\ c.margin_requirement <= I128_MAX
    /\ c.margin_requirement_plus_buffer <= I128_MAX
    /\ InI128(c.total_collateral - c.margin_requirement)
    /\ InI128(c.total_collateral + c.total_collateral_buffer)
    /\ InI128(c.total_collateral + c.total_collateral_buffer
                - c.margin_requirement_plus_buffer)

\* a cache whose running totals are those of result c
CacheWithTotals(c) ==
    [new("Initial", FALSE, 0, 0, 0) EXCEPT
        !.total_collateral = c.total_collateral,
        !.total_collateral_buffer = c.total_collateral_buffer,
        !.margin_requirement = c.margin_requirement,
        !.margin_requirement_plus_buffer = c.margin_requirement_plus_buffer]

\* the relations between the totals of c and the getters' results on it
GetterAlgebra(c, fc, fcb, meets, meets_buffered, liquidated) ==
    /\ fc = Value(c.total_collateral - c.margin_requirement)
    /\ meets.value <=> (fc.value >= 0)
    /\ liquidated.ok /\ (liquidated.value <=> ~meets.value)
    /\ fcb.ok /\ (meets_buffered.value <=> (fcb.value >= 0))

\* C17: on SimplifiedMarginCalculation and on IncrementalMarginCalculation,
\* within the non-overflowing range, free_collateral() = total_collateral
\* - margin_requirement (possibly negative), meets_margin_requirement()
\* holds exactly when free_collateral() >= 0, can_be_liquidated holds
\* exactly when meets_margin_requirement() is false, and
\* meets_margin_requirement_with_buffer() holds exactly when
\* free_collateral_with_buffer() >= 0.
C17_GetterAlgebra ==
    (getter.evaluated /\ NonOverflowing(calc))
        => /\ GetterAlgebra(calc, getter.free_collateral,
                            getter.free_collateral_with_buffer,
                            getter.meets_margin_requirement,
                            getter.meets_margin_requirement_with_buffer,
                            getter.can_be_liquidated)
           /\ GetterAlgebra(
                  CacheWithTotals(calc),
                  free_collateral(CacheWithTotals(calc), overflow_checks),
                  free_collateral_with_buffer(CacheWithTotals(calc),
                                              overflow_checks),
                  Value(meets_margin_requirement(CacheWithTotals(calc))),
                  Value(meets_margin_requirement_with_buffer(
                            CacheWithTotals(calc))),
                  can_be_liquidated(CacheWithTotals(calc), overflow_checks))

\* a result in range whose getters were evaluated: free collateral exactly
\* zero, so the requirement is met and the account cannot be liquidated
C17_Witness ==
    /\ getter.evaluated /\ NonOverflowing(calc)
    /\ calc.margin_requirement = 1
    /\ getter.free_collateral = Value(0)
    /\ getter.meets_margin_requirement = Value(TRUE)
    /\ getter.can_be_liquidated = Value(FALSE)

\* every derived getter gives the same answer on result c as on cache this
SameGetters(c, this) ==
    /\ free_collateral(c, overflow_checks)
          = free_collateral(this, overflow_checks)
    /\ get_total_collateral_plus_buffer(c)
          = get_total_collateral_plus_buffer(this)
    /\ free_collateral_with_buffer(c, overflow_checks)
          = free_collateral_with_buffer(this, overflow_checks)
    /\ meets_margin_requirement(c) = meets_margin_requirement(this)
    /\ meets_margin_requirement_with_buffer(c)
          = meets_margin_requirement_with_buffer(this)

\* C18: in every reachable cache state, to_simplified() returns a result
\* whose four totals equal the cache's running totals, so every derived
\* getter gives the same answer on the projection as on the cache, and
\* to_simplified does not modify the cache.
C18_ToSimplifiedProjectsTotals ==
    [][call'.op = "to_simplified"
          => /\ Totals(calc') = Totals(cache)
             /\ SameGetters(calc', cache)
             /\ cache' = cache]_vars

\* a projection of a cache that holds collateral and a requirement, with a
\* buffered requirement that differs from the plain one
C18_Witness ==
    /\ call.op = "to_simplified"
    /\ calc.total_collateral > 0
    /\ calc.margin_requirement > 0
    /\ calc.margin_requirement_plus_buffer # calc.margin_requirement
    /\ Totals(calc) = Totals(cache)

\* the slots of `after` that the call wrote: every stored contribution
\* after calculate (which resets all slots first), the changed ones after
\* an update
WrittenSlots(op, before, after) ==
    {i \in 1..NumSlots :
        /\ after[i] # DefaultPositionCollateral
        /\ (op = "calculate" \/ after[i] # before[i])}

\* C19: after a call of update_spot_position, update_perp_position or
\* calculate with timestamp t, the cache's last_updated equals t, also when
\* the update did nothing (empty position, no slot), and every slot the
\* call wrote carries last_updated = t.
C19_LastUpdatedIsCallTimestamp ==
    [][(/\ call'.op \in {"update_spot", "update_perp", "calculate"}
        /\ outcome' = "ok")
          => /\ cache'.last_updated = call'.timestamp
             /\ \A i \in WrittenSlots(call'.op, cache.spot_collateral,
                                       cache'.spot_collateral) :
                   cache'.spot_collateral[i].last_updated = call'.timestamp
             /\ \A i \in WrittenSlots(call'.op, cache.perp_collateral,
                                       cache'.perp_collateral) :
                   cache'.perp_collateral[i].last_updated = call'.timestamp
      ]_vars

\* an update at timestamp 1 that stored the contribution of a borrow, in a
\* cache built at timestamp 0
C19_Witness ==
    /\ call.op = "update_spot" /\ outcome = "ok"
    /\ call.timestamp = 1
    /\ SpotIsBorrow(call.spot)
    /\ cache.last_updated = 1
    /\ \E i \in 1..NumSlots :
          /\ cache.spot_collateral[i].market_index = call.spot.market_index
          /\ cache.spot_collateral[i].liability_value > 0
          /\ cache.spot_collateral[i].last_updated = 1
    /\ \E i \in 1..NumSlots :
          /\ cache.spot_collateral[i] # DefaultPositionCollateral
          /\ cache.spot_collateral[i].last_updated = 0

\* the metadata a cache is built with
Metadata(this) ==
    <<this.margin_type, this.user_high_leverage_mode,
      this.user_custom_margin_ratio, this.margin_buffer, this.user_pool_id>>

\* the slot an update of a non-empty position stores into: the slot found
\* for the market, or else the first free one (0: none)
SlotWritten(pos, slots) == IF pos # 0 THEN pos ELSE FirstFreeSlot(slots)

\* the valuation of a spot position under the metadata stored in `this`
SpotValuationOf(this, spot_position, timestamp) ==
    calculate_spot_position_collateral(
        spot_position, this.margin_type, this.user_custom_margin_ratio,
        this.margin_buffer, timestamp, this.user_pool_id)

\* C20: the metadata a cache was built with (margin_type,
\* user_high_leverage_mode, user_custom_margin_ratio, margin_buffer,
\* user_pool_id) is never changed by update_spot_position,
\* update_perp_position or calculate, and every valuation these operations
\* perform uses exactly the stored values: the contribution an update
\* stores is the valuation of the position under the stored metadata.
C20_MetadataIsFixedAndUsed ==
    [][(call'.op \in {"update_spot", "update_perp", "calculate"})
          => /\ Metadata(cache') = Metadata(cache)
             /\ (/\ call'.op = "update_spot" /\ outcome' = "ok"
                 /\ ~SpotIsAvailable(call'.spot)
                 /\ SlotWritten(call'.pos, cache.spot_collateral) # 0)
                   => cache'.spot_collateral[
                          SlotWritten(call'.pos, cache.spot_collateral)]
                        = SpotValuationOf(cache, call'.spot,
                                          call'.timestamp)
             /\ (/\ call'.op = "update_perp" /\ outcome' = "ok"
                 /\ ~PerpIsAvailable(call'.perp)
                 /\ SlotWritten(call'.pos, cache.perp_collateral) # 0)
                   => cache'.perp_collateral[
                          SlotWritten(call'.pos, cache.perp_collateral)]
                        = PerpCollateral(
                              call'.perp,
                              CalculatePerpPositionValueAndPnl(
                                  call'.perp,
                                  PerpMarketDef(call'.perp.market_index),
                                  cache.margin_type,
                                  cache.user_custom_margin_ratio,
                                  cache.user_high_leverage_mode),
                              cache.margin_buffer, call'.timestamp)
      ]_vars

\* the non-empty positions of an account, per instrument class
NonEmptySpot(u) ==
    {i \in DOMAIN u.spot_positions : ~SpotIsAvailable(u.spot_positions[i])}

NonEmptyPerp(u) ==
    {i \in DOMAIN u.perp_positions : ~PerpIsAvailable(u.perp_positions[i])}

\* the insertion stored new_collateral in the first free slot of `before`
\* and left every other slot as it was
StoredInFreeSlot(before, after, new_collateral) ==
    /\ FirstFreeSlot(before) # 0
    /\ after[FirstFreeSlot(before)] = new_collateral
    /\ \A i \in 1..NumSlots :
          i # FirstFreeSlot(before) => after[i] = before[i]

\* C21: while at most NumSlots (8) market indexes of an instrument class
\* are non-empty at the same time (a closed position being signalled by an
\* update with the empty position), every insertion of a new market finds
\* a free slot and stores the inserted contribution in the slot array, and
\* no other cached contribution is evicted or lost.
C21_InsertionFindsFreeSlot ==
    [][/\ (/\ call'.op = "update_spot" /\ outcome' = "ok"
           /\ call'.pos = 0 /\ ~SpotIsAvailable(call'.spot)
           /\ Cardinality(NonEmptySpot(user')) <= NumSlots)
             => StoredInFreeSlot(
                    cache.spot_collateral, cache'.spot_collateral,
                    SpotValuationOf(cache, call'.spot, call'.timestamp))
       /\ (/\ call'.op = "update_perp" /\ outcome' = "ok"
           /\ call'.pos = 0 /\ ~PerpIsAvailable(call'.perp)
           /\ Cardinality(NonEmptyPerp(user')) <= NumSlots)
             => StoredInFreeSlot(
                    cache.perp_collateral, cache'.perp_collateral,
                    calculate_perp_position_collateral(
                        call'.perp, cache.margin_type,
                        cache.user_high_leverage_mode, cache.margin_buffer,
                        call'.timestamp))
      ]_vars

\* the insertion of an eighth market: its contribution is in the last slot
C21_Witness ==
    /\ call.op = "update_spot" /\ outcome = "ok"
    /\ call.pos = 0 /\ ~SpotIsAvailable(call.spot)
    /\ Cardinality(NonEmptySpot(user)) = NumSlots
    /\ cache.spot_collateral[NumSlots].market_index = call.spot.market_index
    /\ exists(cache.spot_collateral[NumSlots])
    /\ \A i \in 1..NumSlots : exists(cache.spot_collateral[i])

\* the same account in pool 0
PoolZero(u) == [u EXCEPT !.pool_id = 0]

\* the token value of the quote-market deposit of account u, 0 without one
QuoteDepositValue(u) ==
    IF /\ ~SpotIsAvailable(QuotePosition(u))
       /\ ~SpotIsBorrow(QuotePosition(u))
    THEN calculate_token_value(GetSignedTokenAmount(QuotePosition(u)),
                               SpotMarketDef(QUOTE_SPOT_MARKET_INDEX))
    ELSE 0

\* totals r1 are totals r0 less the collateral v, and nothing else differs
LessCollateral(r1, r0, v) ==
    /\ r1.total_collateral = r0.total_collateral - v
    /\ r1.total_collateral_buffer = r0.total_collateral_buffer
    /\ r1.margin_requirement = r0.margin_requirement
    /\ r1.margin_requirement_plus_buffer = r0.margin_requirement_plus_buffer

C24_OpenOrderMarginOnEveryPath ==
    \A i \in DOMAIN user.spot_positions :
        LET p == user.spot_positions[i]
            without == [user EXCEPT !.spot_positions[i].open_orders = 0]
            add_on == p.open_orders * OPEN_ORDER_MARGIN_REQUIREMENT
        IN  (/\ outcome = "ok"
             /\ p.open_orders > 0
             /\ HasSpotMarket(ms, p.market_index))
            => /\ call.op = "simplified"
                    => calc.margin_requirement
                         = calculate_simplified_margin_requirement(
                               without, ms, call.margin_type,
                               call.margin_buffer).margin_requirement
                           + add_on
               /\ call.op = "from_user"
                    => cache.margin_requirement
                         = from_user(without, ms, cache.margin_type,
                                     call.timestamp, cache.margin_buffer
                                    ).this.margin_requirement
                           + add_on

\* C25: every perp position is valued, in
\* calculate_simplified_margin_requirement and in the cache alike, with the
\* custom margin ratio max(account max_margin_ratio, position
\* max_margin_ratio) when the margin type is Initial and 0 when it is
\* Maintenance: the position raises margin_requirement by the requirement of
\* that valuation.
C25_PerpCustomRatioIsMaxOfOverrides ==
    \A i \in DOMAIN user.perp_positions :
        LET p == user.perp_positions[i]
            without == [user EXCEPT
                           !.perp_positions[i] = EmptyPerp(p.market_index)]
            margin_type == IF call.op = "simplified"
                           THEN call.margin_type ELSE cache.margin_type
            expected == CalculatePerpPositionValueAndPnl(
                            p, PerpMarketDef(p.market_index), margin_type,
                            IF margin_type = "Initial"
                            THEN Max(user.max_margin_ratio, p.max_margin_ratio)
                            ELSE 0,
                            IsHighLeverageMode(user, margin_type))
        IN  (/\ outcome = "ok"
             /\ ~PerpIsAvailable(p)
             /\ HasPerpMarket(ms, p.market_index))
            => /\ call.op = "simplified"
                    => calc.margin_requirement
                         = calculate_simplified_margin_requirement(
                               without, ms, call.margin_type,
                               call.margin_buffer).margin_requirement
                           + expected.perp_margin_requirement
               /\ call.op = "from_user"
                    => cache.margin_requirement
                         = from_user(without, ms, cache.margin_type,
                                     call.timestamp, cache.margin_buffer
                                    ).this.margin_requirement
                           + expected.perp_margin_requirement

\* C26: a cached contribution that is truly zero stays distinguishable from
\* an empty slot: after update_spot_position with a non-empty position
\* whose contribution has collateral_value = 0 and liability_value = 0, the
\* slot of that market index is present, so that a later update of the
\* market finds it, for every timestamp passed to the update, 0 included.
C26_ZeroContributionIsPresent ==
    (/\ call.op = "update_spot" /\ outcome = "ok"
     /\ ~SpotIsAvailable(call.spot)
     /\ SpotValuationOf(cache, call.spot, call.timestamp).collateral_value = 0
     /\ SpotValuationOf(cache, call.spot, call.timestamp).liability_value = 0)
        => FindSlot(cache.spot_collateral, call.spot.market_index) # 0

\* C27: removing a cached position (update_spot_position or
\* update_perp_position with an empty position whose market index has a
\* present slot) clears the slot and subtracts its contribution without any
\* market lookup: the removal succeeds whatever the supplied snapshot
\* holds, also when the market is absent from it.
C27_RemovalNeedsNoMarket ==
    [][/\ (call'.op = "update_spot" /\ SpotIsAvailable(call'.spot)
           /\ call'.pos # 0)
            => /\ outcome' = "ok"
               /\ ~exists(cache'.spot_collateral[call'.pos])
               /\ cache'.total_collateral
                    = cache.total_collateral
                      - cache.spot_collateral[call'.pos].collateral_value
               /\ cache'.margin_requirement
                    = cache.margin_requirement
                      - cache.spot_collateral[call'.pos].liability_value
       /\ (call'.op = "update_perp" /\ PerpIsAvailable(call'.perp)
           /\ call'.pos # 0)
            => /\ outcome' = "ok"
               /\ ~exists(cache'.perp_collateral[call'.pos])
               /\ cache'.total_collateral
                    = cache.total_collateral
                      - cache.perp_collateral[call'.pos].collateral_value
               /\ cache'.margin_requirement
                    = cache.margin_requirement
                      - cache.perp_collateral[call'.pos].liability_value
      ]_vars

\* C28: in every reachable cache state the spot slot array holds at most
\* one present slot per market index, and so does the perp slot array,
\* after any sequence of from_user, calculate and single-position updates.
C28_OnePresentSlotPerMarket ==
    \A i, j \in 1..NumSlots :
        /\ (/\ i # j
            /\ exists(cache.spot_collateral[i])
            /\ exists(cache.spot_collateral[j]))
              => cache.spot_collateral[i].market_index
                   # cache.spot_collateral[j].market_index
        /\ (/\ i # j
            /\ exists(cache.perp_collateral[i])
            /\ exists(cache.perp_collateral[j]))
              => cache.perp_collateral[i].market_index
                   # cache.perp_collateral[j].market_index

\* an update that replaced the contribution of a market in place while
\* another spot market and a perp market are cached next to it
C28_Witness ==
    /\ call.op = "update_spot" /\ outcome = "ok"
    /\ call.pos # 0
    /\ ~SpotIsAvailable(call.spot)
    /\ Cardinality({i \in 1..NumSlots : exists(cache.spot_collateral[i])}) > 1
    /\ \E i \in 1..NumSlots : exists(cache.perp_collateral[i])

\* C29: inserting a position for a market that has no slot and then
\* removing it (an update with the emptied position of the same market
\* index) restores the four running totals and the presence pattern of both
\* slot arrays to what they were before the insertion, for spot and perp
\* positions, deposits and liabilities, and any buffer rate.
C29_InsertThenRemoveRestores ==
    [][/\ (call'.op = "update_spot" /\ outcome' = "ok" /\ call'.pos = 0
           /\ ~SpotIsAvailable(call'.spot))
            => \A t \in Timestamps :
                  LET r == update_spot_position(
                               cache', EmptySpot(call'.spot.market_index),
                               ms', t)
                  IN  /\ r.ok
                      /\ Totals(r.this) = Totals(cache)
                      /\ \A i \in 1..NumSlots :
                            /\ exists(r.this.spot_collateral[i])
                                 <=> exists(cache.spot_collateral[i])
                            /\ exists(r.this.perp_collateral[i])
                                 <=> exists(cache.perp_collateral[i])
       /\ (call'.op = "update_perp" /\ outcome' = "ok" /\ call'.pos = 0
           /\ ~PerpIsAvailable(call'.perp))
            => \A t \in Timestamps :
                  LET r == update_perp_position(
                               cache', EmptyPerp(call'.perp.market_index),
                               ms', t)
                  IN  /\ r.ok
                      /\ Totals(r.this) = Totals(cache)
                      /\ \A i \in 1..NumSlots :
                            /\ exists(r.this.spot_collateral[i])
                                 <=> exists(cache.spot_collateral[i])
                            /\ exists(r.this.perp_collateral[i])
                                 <=> exists(cache.perp_collateral[i])
      ]_vars

\* C30: when all 8 slots of a class are present and an update arrives for a
\* non-empty position of a further market index, the running totals never
\* come to include a contribution for which no slot is stored: the call
\* fails, or it leaves the four running totals unchanged.
C30_FullArrayRejectsOrIgnores ==
    [][/\ (/\ call'.op = "update_spot" /\ call'.pos = 0
           /\ ~SpotIsAvailable(call'.spot)
           /\ \A i \in 1..NumSlots : exists(cache.spot_collateral[i]))
            => (outcome' = "panic" \/ Totals(cache') = Totals(cache))
       /\ (/\ call'.op = "update_perp" /\ call'.pos = 0
           /\ ~PerpIsAvailable(call'.perp)
           /\ \A i \in 1..NumSlots : exists(cache.perp_collateral[i]))
            => (outcome' = "panic" \/ Totals(cache') = Totals(cache))
      ]_vars

====
